---- MODULE Spec2Model ----
(***************************************************************************)
(* Model of generate_mappings.py: the fixed-point encoder float_to_bin_str, *)
(* the 3x3 transform apply_transformation and the __main__ driver.          *)
(*                                                                          *)
(* Real numbers are exact rationals [n |-> numerator, d |-> denominator],   *)
(* d > 0, kept in lowest terms.  Bit strings are sequences of the one-      *)
(* character strings "0" and "1", most significant bit first.               *)
(***************************************************************************)
EXTENDS Integers, Sequences, FiniteSets, TLC

\* ------------------------------------------------------------------ bounds
\* Inputs of a free call of float_to_bin_str: |number| <= MaxAbs, with
\* denominators 1..MaxDen, int_bits in 1..MaxIntBits, frac_bits in
\* 0..MaxFracBits.
MaxAbs == 9
MaxDen == 5
MaxIntBits == 8
MaxFracBits == 3
\* The driver's matrix is [[s/2,0,0],[0,s/2,0],[0,0,1]], s in -MaxCoef..MaxCoef.
MaxCoef == 8

\* ------------------------------------------------------- program constants
width == 10
height == 10
num_int_bits == 5
num_frac_bits == 12
matrix_int_bits == 11

\* --------------------------------------------------------------- variables
VARIABLES
    \* float_to_bin_str: parameters and locals
    number, int_bits, frac_bits,
    bit_idx, negative, int_bits_str, frac_bits_str, acc, int_str_len,
    pc,
    \* __main__
    matrix, x, y, x_xform, y_xform,
    x_int_bin_str, x_frac_bin_str,
    x_int_file, x_frac_file, y_int_file, y_frac_file, matrix_file,
    mpc

fvars == <<number, int_bits, frac_bits, bit_idx, negative, int_bits_str,
           frac_bits_str, acc, int_str_len, pc>>
mvars == <<matrix, x, y, x_xform, y_xform, x_int_bin_str, x_frac_bin_str,
           x_int_file, x_frac_file, y_int_file, y_frac_file, matrix_file, mpc>>
vars == <<fvars, mvars>>

\* ------------------------------------------------------ exact arithmetic
Abs(i) == IF i < 0 THEN -i ELSE i

RECURSIVE GCD(_, _)
GCD(a, b) == IF b = 0 THEN a ELSE GCD(b, a % b)

\* A number in lowest terms (Python ints, and floats whose value is dyadic,
\* are exact; the denominator stays positive).
RNorm(r) ==
    LET g == GCD(Abs(r.n), r.d)
    IN  [n |-> r.n \div g, d |-> r.d \div g]

R(n, d) == RNorm([n |-> n, d |-> d])
RInt(i) == [n |-> i, d |-> 1]

\* a + b
RAdd(a, b) ==
    LET g == GCD(a.d, b.d)
    IN  RNorm([n |-> a.n * (b.d \div g) + b.n * (a.d \div g),
               d |-> (a.d \div g) * b.d])

\* a * b
RMul(a, b) == RNorm([n |-> a.n * b.n, d |-> a.d * b.d])

\* -a
RNeg(a) == [n |-> -a.n, d |-> a.d]

\* a <= b, a < b, a > b
RLeq(a, b) == a.n * b.d <= b.n * a.d
RLt(a, b) == a.n * b.d < b.n * a.d
RGt(a, b) == RLt(b, a)

\* 2 ** k, for k of either sign
RPow2(k) == IF k >= 0 THEN [n |-> 2^k, d |-> 1] ELSE [n |-> 1, d |-> 2^(-k)]

\* "c" * n
Rep(c, n) == [i \in 1..n |-> c]

\* --------------------------------------------------- float_to_bin_str
\* Lines 17-23: the locals, and the sign test.
Entry ==
    /\ pc = "entry"
    /\ bit_idx' = 0
    /\ negative' = RLt(number, RInt(0))
    /\ int_bits_str' = <<>>
    /\ frac_bits_str' = <<>>
    /\ pc' = "search"
    /\ UNCHANGED <<number, int_bits, frac_bits, acc, int_str_len, mvars>>

\* Variant of SearchNegCond: >= where line 27 has >.
SearchNegCondNonStrict(idx, num) == RLeq(num, RNeg(RPow2(idx)))

\* Line 27: the condition of the negative search, (-(2**bit_idx)) > number.
SearchNegCond(idx, num) == RGt(RNeg(RPow2(idx)), num)

\* Variant of SearchPosCond: < where line 30 has <=.
SearchPosCondStrict(idx, num) == RLt(RPow2(idx), num)

\* Line 30: the condition of the non-negative search, (2**bit_idx) <= number.
SearchPosCond(idx, num) == RLeq(RPow2(idx), num)

\* Lines 26-28: one iteration of the negative magnitude search.
SearchNegStep ==
    /\ pc = "search"
    /\ negative
    /\ SearchNegCond(bit_idx, number)
    /\ bit_idx' = bit_idx + 1
    /\ UNCHANGED <<number, int_bits, frac_bits, negative, int_bits_str,
                   frac_bits_str, acc, int_str_len, pc, mvars>>

\* Line 27: the negative search ends.
SearchNegExit ==
    /\ pc = "search"
    /\ negative
    /\ ~SearchNegCond(bit_idx, number)
    /\ pc' = "init_acc"
    /\ UNCHANGED <<number, int_bits, frac_bits, bit_idx, negative, int_bits_str,
                   frac_bits_str, acc, int_str_len, mvars>>

\* Lines 30-31: one iteration of the non-negative magnitude search.
SearchPosStep ==
    /\ pc = "search"
    /\ ~negative
    /\ SearchPosCond(bit_idx, number)
    /\ bit_idx' = bit_idx + 1
    /\ UNCHANGED <<number, int_bits, frac_bits, negative, int_bits_str,
                   frac_bits_str, acc, int_str_len, pc, mvars>>

\* Variant of SearchPosExit: the decrement of line 32 is missing.
SearchPosExitNoDec ==
    /\ pc = "search"
    /\ ~negative
    /\ ~SearchPosCond(bit_idx, number)
    /\ pc' = "init_acc"
    /\ UNCHANGED <<number, int_bits, frac_bits, bit_idx, negative, int_bits_str,
                   frac_bits_str, acc, int_str_len, mvars>>

\* Lines 30, 32: the non-negative search ends one past the top bit.
SearchPosExit ==
    /\ pc = "search"
    /\ ~negative
    /\ ~SearchPosCond(bit_idx, number)
    /\ bit_idx' = bit_idx - 1
    /\ pc' = "init_acc"
    /\ UNCHANGED <<number, int_bits, frac_bits, negative, int_bits_str,
                   frac_bits_str, acc, int_str_len, mvars>>

\* Lines 34-38: the accumulator, and the sign bit of a negative number.
InitAcc ==
    /\ pc = "init_acc"
    /\ IF negative
       THEN /\ acc' = RNeg(RPow2(bit_idx))
            /\ bit_idx' = bit_idx - 1
            /\ int_bits_str' = int_bits_str \o <<"1">>
       ELSE /\ acc' = RInt(0)
            /\ UNCHANGED <<bit_idx, int_bits_str>>
    /\ pc' = "int_loop"
    /\ UNCHANGED <<number, int_bits, frac_bits, negative, frac_bits_str,
                   int_str_len, mvars>>

\* Variant of IntLoopStep: the accumulator is not updated on a "1" (line 44).
IntLoopStepNoKeep ==
    /\ pc = "int_loop"
    /\ bit_idx > -1
    /\ LET calc == RAdd(acc, RPow2(bit_idx))
       IN  IF RLeq(calc, number)
           THEN int_bits_str' = int_bits_str \o <<"1">>
           ELSE int_bits_str' = int_bits_str \o <<"0">>
    /\ bit_idx' = bit_idx - 1
    /\ UNCHANGED <<number, int_bits, frac_bits, negative, frac_bits_str,
                   acc, int_str_len, pc, mvars>>

\* Lines 40-47: one iteration of the integer loop.
IntLoopStep ==
    /\ pc = "int_loop"
    /\ bit_idx > -1
    /\ LET calc == RAdd(acc, RPow2(bit_idx))
       IN  IF RLeq(calc, number)
           THEN /\ int_bits_str' = int_bits_str \o <<"1">>
                /\ acc' = calc
           ELSE /\ int_bits_str' = int_bits_str \o <<"0">>
                /\ acc' = acc
    /\ bit_idx' = bit_idx - 1
    /\ UNCHANGED <<number, int_bits, frac_bits, negative, frac_bits_str,
                   int_str_len, pc, mvars>>

\* Line 40: the integer loop ends.
IntLoopExit ==
    /\ pc = "int_loop"
    /\ ~(bit_idx > -1)
    /\ pc' = "frac_loop"
    /\ UNCHANGED <<number, int_bits, frac_bits, bit_idx, negative, int_bits_str,
                   frac_bits_str, acc, int_str_len, mvars>>

\* Variant of FracLoopStep: < where line 51 has <=.
FracLoopStepStrict ==
    /\ pc = "frac_loop"
    /\ bit_idx >= -frac_bits
    /\ LET calc == RAdd(acc, RPow2(bit_idx))
       IN  IF RLt(calc, number)
           THEN /\ frac_bits_str' = frac_bits_str \o <<"1">>
                /\ acc' = calc
           ELSE /\ frac_bits_str' = frac_bits_str \o <<"0">>
                /\ acc' = acc
    /\ bit_idx' = bit_idx - 1
    /\ UNCHANGED <<number, int_bits, frac_bits, negative, int_bits_str,
                   int_str_len, pc, mvars>>

\* Lines 49-56: one iteration of the fractional loop.
FracLoopStep ==
    /\ pc = "frac_loop"
    /\ bit_idx >= -frac_bits
    /\ LET calc == RAdd(acc, RPow2(bit_idx))
       IN  IF RLeq(calc, number)
           THEN /\ frac_bits_str' = frac_bits_str \o <<"1">>
                /\ acc' = calc
           ELSE /\ frac_bits_str' = frac_bits_str \o <<"0">>
                /\ acc' = acc
    /\ bit_idx' = bit_idx - 1
    /\ UNCHANGED <<number, int_bits, frac_bits, negative, int_bits_str,
                   int_str_len, pc, mvars>>

\* Line 49: the fractional loop ends.
FracLoopExit ==
    /\ pc = "frac_loop"
    /\ ~(bit_idx >= -frac_bits)
    /\ pc' = "adjust"
    /\ UNCHANGED <<number, int_bits, frac_bits, bit_idx, negative, int_bits_str,
                   frac_bits_str, acc, int_str_len, mvars>>

\* Variant of Extend: pads with "0" whatever the sign.
ExtendZeroOnly(s, len, neg, bits) ==
    IF len < bits THEN Rep("0", bits - len) \o s ELSE s

\* Variant of Extend: pads on the right.
ExtendRight(s, len, neg, bits) ==
    IF len < bits
    THEN IF neg THEN s \o Rep("1", bits - len) ELSE s \o Rep("0", bits - len)
    ELSE s

\* Lines 60-64: sign or zero extension of a short integer string.
Extend(s, len, neg, bits) ==
    IF len < bits
    THEN IF neg THEN Rep("1", bits - len) \o s ELSE Rep("0", bits - len) \o s
    ELSE s

\* Variant of Truncate: the slice starts one character early.
TruncateOneEarly(s, len, bits) ==
    IF len > bits THEN SubSeq(s, len - bits, Len(s)) ELSE s

\* Variant of Truncate: keeps the most significant characters, s[:bits].
TruncateHead(s, len, bits) ==
    IF len > bits THEN SubSeq(s, 1, bits) ELSE s

\* Lines 65-66: s[len - bits:] of a long integer string.
Truncate(s, len, bits) ==
    IF len > bits THEN SubSeq(s, len - bits + 1, Len(s)) ELSE s

\* Lines 58-68: the width adjustment, and the return.
Adjust ==
    /\ pc = "adjust"
    /\ int_str_len' = Len(int_bits_str)
    /\ int_bits_str' =
           Truncate(Extend(int_bits_str, Len(int_bits_str), negative, int_bits),
                    Len(int_bits_str), int_bits)
    /\ pc' = "done"
    /\ UNCHANGED <<number, int_bits, frac_bits, bit_idx, negative,
                   frac_bits_str, acc, mvars>>

\* The values a free call is tried on.
Numbers == { R(n, d) : n \in -(MaxAbs * MaxDen)..(MaxAbs * MaxDen), d \in 1..MaxDen }
Inputs == { r \in Numbers : RLeq(RInt(-MaxAbs), r) /\ RLeq(r, RInt(MaxAbs)) }

\* A call of float_to_bin_str on its own: any number, any widths.
Init ==
    /\ number \in Inputs
    /\ int_bits \in 1..MaxIntBits
    /\ frac_bits \in 0..MaxFracBits
    /\ bit_idx = 0
    /\ negative = FALSE
    /\ int_bits_str = <<>>
    /\ frac_bits_str = <<>>
    /\ acc = RInt(0)
    /\ int_str_len = 0
    /\ pc = "entry"
    /\ matrix = <<>>
    /\ x = 0
    /\ y = 0
    /\ x_xform = RInt(0)
    /\ y_xform = RInt(0)
    /\ x_int_bin_str = <<>>
    /\ x_frac_bin_str = <<>>
    /\ x_int_file = <<>>
    /\ x_frac_file = <<>>
    /\ y_int_file = <<>>
    /\ y_frac_file = <<>>
    /\ matrix_file = <<>>
    /\ mpc = "none"

\* ------------------------------------------------ apply_transformation
\* Variant of apply_transformation: y is computed from row 0 of the matrix.
apply_transformationRowSlip(c, m) ==
    LET row(i) == RAdd(RAdd(RMul(RInt(c[1]), m[i][1]), RMul(RInt(c[2]), m[i][2])),
                       RMul(RInt(c[3]), m[i][3]))
    IN  <<row(1), row(1), row(3)>>

\* Lines 3-12: (x, y, one) = m * c, for the column vector c.
apply_transformation(c, m) ==
    LET row(i) == RAdd(RAdd(RMul(RInt(c[1]), m[i][1]), RMul(RInt(c[2]), m[i][2])),
                       RMul(RInt(c[3]), m[i][3]))
    IN  <<row(1), row(2), row(3)>>

\* ------------------------------------------------------------ __main__
\* Lines 81-83 hold the matrix, which the script's user replaces; the model
\* takes the uniform scalings by s/2, of which s = 2 is the matrix of the source.
Scaling(s) ==
    << <<R(s, 2), RInt(0), RInt(0)>>,
       <<RInt(0), R(s, 2), RInt(0)>>,
       <<RInt(0), RInt(0), RInt(1)>> >>

Identity == Scaling(2)

Matrices == { Scaling(s) : s \in -MaxCoef..MaxCoef }

\* Line 95: the call for entry matrix[y][x].
MatrixCall ==
    /\ mpc = "matrix_loop"
    /\ pc = "idle"
    /\ number' = matrix[y + 1][x + 1]
    /\ int_bits' = matrix_int_bits
    /\ frac_bits' = num_frac_bits
    /\ pc' = "entry"
    /\ mpc' = "matrix_ret"
    /\ UNCHANGED <<bit_idx, negative, int_bits_str, frac_bits_str, acc, int_str_len,
                   matrix, x, y, x_xform, y_xform, x_int_bin_str, x_frac_bin_str,
                   x_int_file, x_frac_file, y_int_file, y_frac_file, matrix_file>>

\* Lines 93-96: the entry's line is written, and the loops of lines 93-94 advance.
MatrixWrite ==
    /\ mpc = "matrix_ret"
    /\ pc = "done"
    /\ matrix_file' = Append(matrix_file, int_bits_str \o frac_bits_str)
    /\ IF x < 2
       THEN /\ x' = x + 1
            /\ y' = y
            /\ mpc' = "matrix_loop"
       ELSE IF y < 2
            THEN /\ x' = 0
                 /\ y' = y + 1
                 /\ mpc' = "matrix_loop"
            ELSE /\ x' = 0
                 /\ y' = 0
                 /\ mpc' = "grid_loop"
    /\ pc' = "idle"
    /\ UNCHANGED <<number, int_bits, frac_bits, bit_idx, negative, int_bits_str,
                   frac_bits_str, acc, int_str_len, matrix, x_xform, y_xform,
                   x_int_bin_str, x_frac_bin_str,
                   x_int_file, x_frac_file, y_int_file, y_frac_file>>

\* Lines 101, 104: the transform of (x, y), and the call for x_xform.
GridCallX ==
    /\ mpc = "grid_loop"
    /\ pc = "idle"
    /\ LET t == apply_transformation(<<x, y, 1>>, matrix)
       IN  /\ x_xform' = t[1]
           /\ y_xform' = t[2]
           /\ number' = t[1]
    /\ int_bits' = num_int_bits
    /\ frac_bits' = num_frac_bits
    /\ pc' = "entry"
    /\ mpc' = "x_ret"
    /\ UNCHANGED <<bit_idx, negative, int_bits_str, frac_bits_str, acc, int_str_len,
                   matrix, x, y, x_int_bin_str, x_frac_bin_str,
                   x_int_file, x_frac_file, y_int_file, y_frac_file, matrix_file>>

\* Lines 104-105: the strings of x_xform are kept, and the call for y_xform.
GridCallY ==
    /\ mpc = "x_ret"
    /\ pc = "done"
    /\ x_int_bin_str' = int_bits_str
    /\ x_frac_bin_str' = frac_bits_str
    /\ number' = y_xform
    /\ int_bits' = num_int_bits
    /\ frac_bits' = num_frac_bits
    /\ pc' = "entry"
    /\ mpc' = "y_ret"
    /\ UNCHANGED <<bit_idx, negative, int_bits_str, frac_bits_str, acc, int_str_len,
                   matrix, x, y, x_xform, y_xform,
                   x_int_file, x_frac_file, y_int_file, y_frac_file, matrix_file>>

\* Lines 105-111: the four lines are written, and the loops of lines 98-99 advance.
GridWrite ==
    /\ mpc = "y_ret"
    /\ pc = "done"
    /\ x_int_file' = Append(x_int_file, x_int_bin_str)
    /\ x_frac_file' = Append(x_frac_file, x_frac_bin_str)
    /\ y_int_file' = Append(y_int_file, int_bits_str)
    /\ y_frac_file' = Append(y_frac_file, frac_bits_str)
    /\ IF x < width - 1
       THEN /\ x' = x + 1
            /\ y' = y
            /\ mpc' = "grid_loop"
       ELSE IF y < height - 1
            THEN /\ x' = 0
                 /\ y' = y + 1
                 /\ mpc' = "grid_loop"
            ELSE /\ UNCHANGED <<x, y>>
                 /\ mpc' = "close"
    /\ pc' = "idle"
    /\ UNCHANGED <<number, int_bits, frac_bits, bit_idx, negative, int_bits_str,
                   frac_bits_str, acc, int_str_len, matrix, x_xform, y_xform,
                   x_int_bin_str, x_frac_bin_str, matrix_file>>

\* Lines 113-117: the files are closed.
Close ==
    /\ mpc = "close"
    /\ mpc' = "end"
    /\ UNCHANGED <<fvars, matrix, x, y, x_xform, y_xform, x_int_bin_str,
                   x_frac_bin_str, x_int_file, x_frac_file, y_int_file,
                   y_frac_file, matrix_file>>

\* Lines 72-92: the script up to its first loop, the five files open and empty.
InitMain ==
    /\ matrix \in Matrices
    /\ x = 0
    /\ y = 0
    /\ x_xform = RInt(0)
    /\ y_xform = RInt(0)
    /\ x_int_bin_str = <<>>
    /\ x_frac_bin_str = <<>>
    /\ x_int_file = <<>>
    /\ x_frac_file = <<>>
    /\ y_int_file = <<>>
    /\ y_frac_file = <<>>
    /\ matrix_file = <<>>
    /\ mpc = "matrix_loop"
    /\ number = RInt(0)
    /\ int_bits = 1
    /\ frac_bits = 0
    /\ bit_idx = 0
    /\ negative = FALSE
    /\ int_bits_str = <<>>
    /\ frac_bits_str = <<>>
    /\ acc = RInt(0)
    /\ int_str_len = 0
    /\ pc = "idle"

\* ------------------------------------------------------- specifications
\* One call of float_to_bin_str.
Next ==
    \/ Entry
    \/ SearchNegStep
    \/ SearchNegExit
    \/ SearchPosStep
    \/ SearchPosExit
    \/ InitAcc
    \/ IntLoopStep
    \/ IntLoopExit
    \/ FracLoopStep
    \/ FracLoopExit
    \/ Adjust

Spec == Init /\ [][Next]_vars

\* The call runs to its return: Python executes the next statement.
FairSpec == Init /\ [][Next]_vars /\ WF_vars(Next)

\* The script.
NextMain ==
    \/ MatrixCall
    \/ MatrixWrite
    \/ GridCallX
    \/ GridCallY
    \/ GridWrite
    \/ Close
    \/ Entry
    \/ SearchNegStep
    \/ SearchNegExit
    \/ SearchPosStep
    \/ SearchPosExit
    \/ InitAcc
    \/ IntLoopStep
    \/ IntLoopExit
    \/ FracLoopStep
    \/ FracLoopExit
    \/ Adjust

SpecMain == InitMain /\ [][NextMain]_vars

\* ------------------------------------------- reference definitions
\* The mathematics the properties below are stated in, computed by division
\* and remainder rather than by the encoder's greedy comparison.
IsBits(s) == \A i \in 1..Len(s) : s[i] \in {"0", "1"}

Bit(c) == IF c = "1" THEN 1 ELSE 0

\* The bit string read as an unsigned binary number.
RECURSIVE Unsigned(_)
Unsigned(s) ==
    IF s = <<>> THEN 0
    ELSE 2 * Unsigned(SubSeq(s, 1, Len(s) - 1)) + Bit(s[Len(s)])

\* The bit string read as a two's-complement number (first bit of weight -2^(n-1)).
TwosComp(s) ==
    IF s = <<>> THEN 0
    ELSE Unsigned(s) - (IF s[1] = "1" THEN 2^Len(s) ELSE 0)

\* The len low-order bits of the integer m, most significant first.
BinOf(m, len) ==
    [i \in 1..len |-> IF (m \div 2^(len - i)) % 2 = 1 THEN "1" ELSE "0"]

\* The number of bits of the natural number m (0 for 0).
RECURSIVE BitLen(_)
BitLen(m) == IF m = 0 THEN 0 ELSE 1 + BitLen(m \div 2)

\* floor(r), and floor(r * 2^k) for k >= 0.
Floor(r) == r.n \div r.d
FloorScaled(r, k) == (r.n * 2^k) \div r.d

\* r - floor(r)
FracPart(r) == RAdd(r, RInt(-Floor(r)))

RSub(a, b) == RAdd(a, RNeg(b))

\* The last len characters of s.
LowChars(s, len) == [i \in 1..len |-> s[Len(s) - len + i]]

Sign == IF negative THEN 1 ELSE 0

\* The raw integer string is complete (before the width adjustment).
RawDone == pc \in {"frac_loop", "adjust"}

\* ----------------------------------------------------------------- C1
\* C1: on return the integer string has exactly int_bits characters and the
\* fractional string exactly frac_bits characters (none when frac_bits = 0),
\* all of them "0" or "1", whatever the sign and magnitude of the number.
C1_LengthInvariant ==
    pc = "done" =>
        /\ Len(int_bits_str) = int_bits
        /\ Len(frac_bits_str) = frac_bits
        /\ (frac_bits = 0 => frac_bits_str = <<>>)
        /\ IsBits(int_bits_str)
        /\ IsBits(frac_bits_str)

\* A negative number whose raw integer string overflowed has been returned.
C1_Witness ==
    /\ pc = "done"
    /\ negative
    /\ int_str_len > int_bits + 1
    /\ frac_bits = 0

\* ----------------------------------------------------------------- C2
InRange ==
    /\ RLeq(RInt(-(2^(int_bits - 1))), number)
    /\ RLt(number, RInt(2^(int_bits - 1)))

\* C2: for -2^(int_bits-1) <= number < 2^(int_bits-1), the concatenation of
\* the two strings, decoded as two's complement with its last bit of weight
\* 2^-frac_bits, is floor(number * 2^frac_bits) / 2^frac_bits.
C2_RoundTrip ==
    (pc = "done" /\ InRange) =>
        TwosComp(int_bits_str \o frac_bits_str) = FloorScaled(number, frac_bits)

\* A negative, non-dyadic number in range has been encoded with fraction bits.
C2_Witness ==
    /\ pc = "done"
    /\ InRange
    /\ negative
    /\ number.d = 3
    /\ frac_bits >= 2
    /\ int_str_len < int_bits

\* ----------------------------------------------------------------- C3
\* C3: when the raw integer string is longer than int_bits, the call returns
\* (no error), the integer string is the last int_bits characters of the raw
\* one, it reads as floor(number) mod 2^int_bits for either sign (9 with
\* int_bits = 3 gives "001", not a saturated "111" or "011"), and the
\* fractional string is the one a wide enough int_bits gives.
C3_OverflowTruncation ==
    /\ [][(pc = "adjust" /\ Len(int_bits_str) > int_bits) =>
             /\ pc' = "done"
             /\ int_bits_str' = LowChars(int_bits_str, int_bits)
             /\ frac_bits_str' = frac_bits_str]_vars
    /\ []((pc = "done" /\ int_str_len > int_bits) =>
             /\ Unsigned(int_bits_str) = Floor(number) % (2^int_bits)
             /\ frac_bits_str =
                    BinOf(FloorScaled(FracPart(number), frac_bits), frac_bits)
             /\ (number = RInt(9) /\ int_bits = 3 =>
                    int_bits_str = <<"0", "0", "1">>))

\* 9 has been encoded with int_bits = 3.
C3_Witness ==
    /\ pc = "done"
    /\ number = RInt(9)
    /\ int_bits = 3
    /\ int_str_len = 4

\* ----------------------------------------------------------------- C4
\* C4: when the raw integer string is shorter than int_bits, it is padded on
\* the left to int_bits characters, with "1" for a negative number and "0"
\* otherwise, the raw string staying as the suffix; the two's-complement
\* value of a negative number's string is unchanged; -1 with int_bits = 8
\* gives "11111111"; a number in [0, 1) gives an all-"0" integer string.
C4_WidthExtension ==
    /\ [][(pc = "adjust" /\ Len(int_bits_str) < int_bits) =>
             LET pad == int_bits - Len(int_bits_str)
             IN  /\ Len(int_bits_str') = int_bits
                 /\ \A i \in 1..pad :
                        int_bits_str'[i] = (IF RLt(number, RInt(0)) THEN "1" ELSE "0")
                 /\ \A i \in 1..Len(int_bits_str) :
                        int_bits_str'[pad + i] = int_bits_str[i]
                 /\ (RLt(number, RInt(0)) =>
                        TwosComp(int_bits_str') = TwosComp(int_bits_str))]_vars
    /\ []((pc = "done" /\ number = RInt(-1) /\ int_bits = 8) =>
             int_bits_str = <<"1", "1", "1", "1", "1", "1", "1", "1">>)
    /\ []((pc = "done" /\ RLeq(RInt(0), number) /\ RLt(number, RInt(1))) =>
             int_bits_str = Rep("0", int_bits))

\* -1 has been encoded with int_bits = 8.
C4_Witness ==
    /\ pc = "done"
    /\ number = RInt(-1)
    /\ int_bits = 8
    /\ int_str_len = 1

\* ----------------------------------------------------------------- C5
\* C5: for either sign, the fractional string is the first frac_bits bits of
\* the binary expansion of number - floor(number), a function of number and
\* frac_bits alone; the bits are never rounded up: the accumulated value is
\* at most the number and less than 2^-frac_bits below it (0.6 with
\* frac_bits = 3 gives "100").
C5_FractionalFloor ==
    pc = "done" =>
        /\ frac_bits_str = BinOf(FloorScaled(FracPart(number), frac_bits), frac_bits)
        /\ RLeq(acc, number)
        /\ RLt(RSub(number, acc), RPow2(-frac_bits))
        /\ (number = R(3, 5) /\ frac_bits = 3 => frac_bits_str = <<"1", "0", "0">>)

\* -0.6 has been encoded with three fraction bits: 0.4 = 0.011...
C5_Witness ==
    /\ pc = "done"
    /\ number = R(-3, 5)
    /\ frac_bits = 3
    /\ frac_bits_str = <<"0", "1", "1">>

\* ----------------------------------------------------------------- C6
\* C6: for number = 2^k the search ends with starting index k, the raw
\* integer string is "1" followed by k "0"s, and with int_bits > k the result
\* has its only "1" at bit k (4 with int_bits = 5 gives "00100"); for
\* number = -2^k the search ends with index k and the raw integer string is
\* "1" followed by k "0"s, of length k + 1.
C6_PowerOfTwo ==
    \A k \in 0..MaxAbs :
        /\ number = RInt(2^k) =>
              /\ (pc = "init_acc" => bit_idx = k)
              /\ (RawDone => int_bits_str = <<"1">> \o Rep("0", k))
              /\ (pc = "done" /\ int_bits > k =>
                     int_bits_str =
                         Rep("0", int_bits - k - 1) \o <<"1">> \o Rep("0", k))
              /\ (pc = "done" /\ k = 2 /\ int_bits = 5 =>
                     int_bits_str = <<"0", "0", "1", "0", "0">>)
        /\ number = RInt(-(2^k)) =>
              /\ (pc = "init_acc" => bit_idx = k)
              /\ (RawDone =>
                     /\ int_bits_str = <<"1">> \o Rep("0", k)
                     /\ Len(int_bits_str) = k + 1)

\* 4 has been encoded with int_bits = 5 and no fraction bits.
C6_Witness ==
    /\ pc = "done"
    /\ number = RInt(4)
    /\ int_bits = 5
    /\ frac_bits = 0
    /\ int_str_len = 3

\* ----------------------------------------------------------------- C7
\* Each iteration of the integer and of the fractional loop appends exactly
\* one character, and the sign bit of a negative number is the only
\* character appended outside them.
Iterations ==
    (IF pc = "done" THEN int_str_len ELSE Len(int_bits_str)) - Sign
        + Len(frac_bits_str)

\* The iterations of the integer loop: the bits of floor(number) for a
\* non-negative number, the least k with -2^k <= number for a negative one.
IntegerIterations ==
    IF Floor(number) >= 0
    THEN BitLen(Floor(number))
    ELSE BitLen(-Floor(number) - 1)

InLoops == pc \in {"int_loop", "frac_loop", "adjust", "done"}

EmittedWeight(bits, i) ==
    LET w == RPow2(bit_idx + 1 + Len(bits) - i)
    IN  IF bits[i] = "0" THEN RInt(0)
        ELSE IF negative /\ i = 1 THEN RNeg(w) ELSE w

RECURSIVE EmittedSum(_, _)
EmittedSum(bits, i) ==
    IF i = 0 THEN RInt(0) ELSE RAdd(EmittedSum(bits, i - 1), EmittedWeight(bits, i))

\* C9: from the initialisation of the accumulator on, acc <= number and
\* number - acc < 2^(bit_idx + 1); on return 0 <= number - acc < 2^-frac_bits;
\* and acc is the sum of the weights of the "1"s emitted.
C9_AccumulatorInvariant ==
    /\ InLoops =>
          /\ RLeq(acc, number)
          /\ RLt(RSub(number, acc), RPow2(bit_idx + 1))
    /\ pc \in {"int_loop", "frac_loop", "adjust"} =>
          acc = EmittedSum(int_bits_str \o frac_bits_str,
                           Len(int_bits_str) + Len(frac_bits_str))
    /\ pc = "done" =>
          /\ RLeq(RInt(0), RSub(number, acc))
          /\ RLt(RSub(number, acc), RPow2(-frac_bits))

\* A negative third is in the fractional loop, two fraction bits emitted.
C9_Witness ==
    /\ pc = "frac_loop"
    /\ negative
    /\ number.d = 3
    /\ Len(int_bits_str) >= 3
    /\ Len(frac_bits_str) = 2

\* ---------------------------------------------------------------- C10
\* C10: the raw integer string is empty exactly when 0 <= number < 1, and
\* otherwise starts with "1"; for number >= 1 it is the binary of
\* floor(number) without a leading zero; for number < 0 it is the shortest
\* two's-complement string of floor(number): of length 1, or with "0" as its
\* second character.  The fractional loop starts at bit position -1.
C10_RawMinimal ==
    /\ RawDone =>
          /\ (int_bits_str = <<>>) =
                 (RLeq(RInt(0), number) /\ RLt(number, RInt(1)))
          /\ (int_bits_str # <<>> => int_bits_str[1] = "1")
          /\ (RLeq(RInt(1), number) =>
                 int_bits_str = BinOf(Floor(number), BitLen(Floor(number))))
          /\ (RLt(number, RInt(0)) =>
                 /\ TwosComp(int_bits_str) = Floor(number)
                 /\ (Len(int_bits_str) = 1 \/ int_bits_str[2] = "0"))
    /\ (pc = "frac_loop" /\ frac_bits_str = <<>>) => bit_idx = -1

\* -4.5 has its raw integer string complete.
C10_Witness ==
    /\ pc = "adjust"
    /\ number = R(-9, 2)
    /\ Len(int_bits_str) = 4

\* ----------------------------------------------------------------- C8
AllZero(s) == \A i \in 1..Len(s) : s[i] = "0"

\* C8: with the identity matrix, apply_transformation([x, y, 1]) is
\* (x, y, 1) at every grid coordinate, each coordinate's fractional string is
\* all "0" and its integer string decodes, as two's complement, to the
\* coordinate; so do the lines written to the four files.
C8_IdentityCase ==
    matrix = Identity =>
        /\ mpc \in {"grid_loop", "x_ret", "y_ret"} =>
              apply_transformation(<<x, y, 1>>, matrix) = <<RInt(x), RInt(y), RInt(1)>>
        /\ mpc \in {"x_ret", "y_ret"} => (x_xform = RInt(x) /\ y_xform = RInt(y))
        /\ (mpc = "x_ret" /\ pc = "done") =>
              /\ Len(frac_bits_str) = num_frac_bits
              /\ AllZero(frac_bits_str)
              /\ Len(int_bits_str) = num_int_bits
              /\ TwosComp(int_bits_str) = x
        /\ (mpc = "y_ret" /\ pc = "done") =>
              /\ Len(frac_bits_str) = num_frac_bits
              /\ AllZero(frac_bits_str)
              /\ Len(int_bits_str) = num_int_bits
              /\ TwosComp(int_bits_str) = y
              /\ TwosComp(x_int_bin_str) = x
              /\ AllZero(x_frac_bin_str)
        /\ \A i \in 1..Len(x_int_file) :
              /\ TwosComp(x_int_file[i]) = (i - 1) % width
              /\ TwosComp(y_int_file[i]) = (i - 1) \div width
              /\ Len(x_frac_file[i]) = num_frac_bits
              /\ AllZero(x_frac_file[i])
              /\ Len(y_frac_file[i]) = num_frac_bits
              /\ AllZero(y_frac_file[i])

\* The last grid coordinate has been encoded under the identity matrix.
C8_Witness ==
    /\ matrix = Identity
    /\ mpc = "y_ret"
    /\ pc = "done"
    /\ x = width - 1
    /\ y = height - 1

====
